---- MODULE Spec2Model ----
(***************************************************************************)
(* Model of the Mork logical database builder (ply/morkdb.py).             *)
(*                                                                         *)
(* Assertions are enabled (python run without -O): a failed assert raises  *)
(* AssertionError.  Dict cells and meta-dict cells are literal text, as    *)
(* _MorkDict.fromAst reads them.                                           *)
(*                                                                         *)
(* Text is modelled as a sequence of code points (Python 2 byte strings):  *)
(* 'a' is <<97>>, "hi" is <<104, 105>>.  Python's None is the value None   *)
(* below, which is no text because -1 is no code point.                    *)
(***************************************************************************)
EXTENDS Integers, Sequences, FiniteSets, TLC

VARIABLES ast, pc, status, err, dicts, rows, tables, heap, warns, adds, inp, out

vars == <<ast, pc, status, err, dicts, rows, tables, heap, warns, adds, inp, out>>

(***************************************************************************)
(* Bounds of the model.                                                    *)
(***************************************************************************)
MaxItems == 3

MaxLen == 3

\* the calls of addRow made on the database fromAst returned
MaxAdds == 1

(***************************************************************************)
(* Text helpers.                                                           *)
(***************************************************************************)
None == <<-1>>

NsA == <<97>>

NsC == <<99>>

SeedLimit == 128

\* the upper-case hexadecimal digit of d in 0..15, as a code point
HexDigit(d) == IF d < 10 THEN 48 + d ELSE 65 + (d - 10)

\* '%X' % i for i in 0..255: no padding
FormatHex(i) ==
    IF i < 16 THEN <<HexDigit(i)>>
              ELSE <<HexDigit(i \div 16), HexDigit(i % 16)>>

IsHexChar(c) == (c >= 48 /\ c <= 57) \/ (c >= 65 /\ c <= 70) \/ (c >= 97 /\ c <= 102)

HexVal(c) ==
    IF c >= 48 /\ c <= 57 THEN c - 48
    ELSE IF c >= 65 /\ c <= 70 THEN c - 55
    ELSE c - 87

\* _MorkDict() seeded over xrange(0x7F), one entry short
MorkDictShort == [k \in {FormatHex(i) : i \in 0..(SeedLimit - 2)} |->
                  IF Len(k) = 1 THEN <<HexVal(k[1])>>
                                ELSE <<16 * HexVal(k[1]) + HexVal(k[2])>>]

\* _MorkDict(): the identity table { '%X' % i : chr(i) } for i in xrange(0x80)
MorkDictInit == [k \in {FormatHex(i) : i \in 0..(SeedLimit - 1)} |->
                 IF Len(k) = 1 THEN <<HexVal(k[1])>>
                               ELSE <<16 * HexVal(k[1]) + HexVal(k[2])>>]

\* d[k] = v, as Python's dict item assignment
DictSet(d, k, v) == [x \in DOMAIN d \cup {k} |-> IF x = k THEN v ELSE d[x]]

\* existing.update(cells)
DictUpdate(existing, cells) ==
    [x \in DOMAIN existing \cup DOMAIN cells |->
        IF x \in DOMAIN cells THEN cells[x] ELSE existing[x]]

(***************************************************************************)
(* The escape decoder.  A result is [ok, val]: ok = FALSE is the KeyError  *)
(* raised by _translateEscape's lookup in _unescapeMap.                    *)
(***************************************************************************)
BSlash == 92

Dollar == 36

CR == 13

LF == 10

\* the keys of _unescapeMap that are a backslash and one character
UnescapeMapKeys == {41, BSlash, Dollar, LF}

\* _unescapeMap[text] for a two-character text backslash+c
UnescapeMapGet(c) == IF c = LF THEN <<>> ELSE <<c>>

\* the lookup failed: KeyError, no text is produced
Raised == [ok |-> FALSE, val |-> <<>>]

\* the replacement text followed by the decoding of the rest
Emit(text, rest) == IF rest.ok THEN [ok |-> TRUE, val |-> text \o rest.val] ELSE Raised

RECURSIVE UnescapeFrom(_, _)
\* re.sub over value from position i: leftmost match, alternatives in order
UnescapeFrom(value, i) ==
    IF i > Len(value) THEN [ok |-> TRUE, val |-> <<>>]
    ELSE IF /\ value[i] = Dollar
            /\ i + 2 <= Len(value)
            /\ IsHexChar(value[i + 1])
            /\ IsHexChar(value[i + 2])
         THEN Emit(<<16 * HexVal(value[i + 1]) + HexVal(value[i + 2])>>,
                   UnescapeFrom(value, i + 3))
    ELSE IF /\ value[i] = BSlash
            /\ i + 2 <= Len(value)
            /\ value[i + 1] = CR
            /\ value[i + 2] = LF
         THEN UnescapeFrom(value, i + 3)
    ELSE IF value[i] = BSlash /\ i + 1 <= Len(value)
         THEN IF value[i + 1] \in UnescapeMapKeys
              THEN Emit(UnescapeMapGet(value[i + 1]), UnescapeFrom(value, i + 2))
              ELSE Raised
    ELSE Emit(<<value[i]>>, UnescapeFrom(value, i + 1))

Unescape(value) == UnescapeFrom(value, 1)

(***************************************************************************)
(* The syntax tree (morkast), as the builder reads it.                     *)
(*   text or reference : [t |-> "str", s |-> text]                         *)
(*                       [t |-> "ObjectRef", obj |-> ObjectId]             *)
(*   ObjectId : [kind |-> "ObjectId", objectid |-> text, scope |-> sc]     *)
(*              sc is [t |-> "None"], a "str" or an "ObjectRef"            *)
(*   Cell     : [column, value, cut]                                       *)
(*   Dict     : [kind |-> "Dict", cells, meta]   meta: sequence of [cells] *)
(*   Row      : [kind |-> "Row", rowid, cells, trunc, cut, meta]           *)
(*   Table    : [kind |-> "Table", tableid, rows, trunc, meta]             *)
(***************************************************************************)
NoScope == [t |-> "None"]

Str(s) == [t |-> "str", s |-> s]

ObjectId(objectid, scope) == [kind |-> "ObjectId", objectid |-> objectid, scope |-> scope]

ObjectRef(objectid, scope) == [t |-> "ObjectRef", obj |-> ObjectId(objectid, scope)]

Cell(column, value, cut) == [column |-> column, value |-> value, cut |-> cut]

(***************************************************************************)
(* _MorkStore: { namespace: { id: object } }                               *)
(***************************************************************************)
EmptyStore == [ns \in {} |-> <<>>]

StoreHas(store, namespace, oid) ==
    namespace \in DOMAIN store /\ oid \in DOMAIN store[namespace]

\* _MorkStore.__setitem__
StoreSet(store, namespace, oid, value) ==
    [ns \in DOMAIN store \cup {namespace} |->
        IF ns = namespace
        THEN DictSet(IF ns \in DOMAIN store THEN store[ns] ELSE [k \in {} |-> 0], oid, value)
        ELSE store[ns]]

\* the keys (namespace, id) of a store
StoreKeys(store) == UNION {{<<ns, oid>> : oid \in DOMAIN store[ns]} : ns \in DOMAIN store}

(***************************************************************************)
(* The reference resolver.  A lookup result is [ok, ...]; ok = FALSE is a  *)
(* KeyError.                                                               *)
(***************************************************************************)
RECURSIVE DissectId(_, _)
RECURSIVE DictDeref(_, _, _)

\* _dissectId resolving a symbolic scope in "a" in place of "c"
DissectIdViaA(d, oid) ==
    IF oid.scope.t = "ObjectRef"
    THEN LET r == DictDeref(d, oid.scope, NsA)
         IN  IF r.ok THEN [ok |-> TRUE, oid |-> oid.objectid, namespace |-> r.val]
                     ELSE [ok |-> FALSE, oid |-> oid.objectid, namespace |-> None]
    ELSE IF oid.scope.t = "str"
    THEN [ok |-> TRUE, oid |-> oid.objectid, namespace |-> oid.scope.s]
    ELSE [ok |-> TRUE, oid |-> oid.objectid, namespace |-> None]

\* MorkDatabase._dissectId: (objectid, namespace), namespace None when absent
DissectId(d, oid) ==
    IF oid.scope.t = "ObjectRef"
    THEN LET r == DictDeref(d, oid.scope, NsC)
         IN  IF r.ok THEN [ok |-> TRUE, oid |-> oid.objectid, namespace |-> r.val]
                     ELSE [ok |-> FALSE, oid |-> oid.objectid, namespace |-> None]
    ELSE IF oid.scope.t = "str"
    THEN [ok |-> TRUE, oid |-> oid.objectid, namespace |-> oid.scope.s]
    ELSE [ok |-> TRUE, oid |-> oid.objectid, namespace |-> None]

\* MorkDatabase._dictDeref
DictDeref(d, objref, defaultNamespace) ==
    LET id == DissectId(d, objref.obj)
        namespace == IF id.namespace = None THEN defaultNamespace ELSE id.namespace
    IN  IF ~id.ok THEN Raised
        ELSE IF namespace \in DOMAIN d /\ id.oid \in DOMAIN d[namespace]
        THEN [ok |-> TRUE, val |-> d[namespace][id.oid]]
        ELSE Raised

\* _inflateCell with the two default namespaces exchanged
InflateCellSwapped(d, cell) ==
    LET column == IF cell.column.t = "ObjectRef"
                  THEN DictDeref(d, cell.column, NsA)
                  ELSE [ok |-> TRUE, val |-> cell.column.s]
        value  == IF cell.value.t = "ObjectRef"
                  THEN DictDeref(d, cell.value, NsC)
                  ELSE Unescape(cell.value.s)
    IN  IF column.ok /\ value.ok
        THEN [ok |-> TRUE, column |-> column.val, value |-> value.val]
        ELSE [ok |-> FALSE, column |-> <<>>, value |-> <<>>]

\* MorkDatabase._inflateCell: (column, value)
InflateCell(d, cell) ==
    LET column == IF cell.column.t = "ObjectRef"
                  THEN DictDeref(d, cell.column, NsC)
                  ELSE [ok |-> TRUE, val |-> cell.column.s]
        value  == IF cell.value.t = "ObjectRef"
                  THEN DictDeref(d, cell.value, NsA)
                  ELSE Unescape(cell.value.s)
    IN  IF column.ok /\ value.ok
        THEN [ok |-> TRUE, column |-> column.val, value |-> value.val]
        ELSE [ok |-> FALSE, column |-> <<>>, value |-> <<>>]

(***************************************************************************)
(* The builders.  A database is [dicts, rows, tables, heap, warns]:        *)
(*   dicts  : namespace -> (alias -> text)                                 *)
(*   heap   : the _MorkRow objects created so far, heap[r] the columns of  *)
(*            object r (column -> value); a reference is an index          *)
(*   rows   : _MorkRowStore, namespace -> (id -> reference)                *)
(*   tables : _MorkTableStore, namespace -> (id -> sequence of references) *)
(*   warns  : the messages passed to warnings.warn, in order               *)
(* A builder result is [err, db]: err is "none", or the exception raised   *)
(* with db the database as the exception left it.                          *)
(***************************************************************************)
Warn(db, cond, msg) == IF cond THEN [db EXCEPT !.warns = Append(@, msg)] ELSE db

EmptyRow == [k \in {} |-> <<>>]

RECURSIVE RowCellsFrom(_, _, _, _)
\* _MorkRow.fromAst, the loop over ast.cells from cell i with self = row
RowCellsFrom(d, cells, i, row) ==
    IF i > Len(cells) THEN [ok |-> TRUE, row |-> row]
    ELSE LET c == InflateCell(d, cells[i])
         IN  IF c.ok THEN RowCellsFrom(d, cells, i + 1, DictSet(row, c.column, c.value))
                     ELSE [ok |-> FALSE, row |-> row]

\* _MorkRow.fromAst updating the row already stored under the key, if any
RowFromAstMerge(db, rast, defaultNamespace) ==
    LET cells == RowCellsFrom(db.dicts, rast.cells, 1, EmptyRow)
        id == DissectId(db.dicts, rast.rowid)
        namespace == IF id.namespace = None THEN defaultNamespace ELSE id.namespace
        warned == Warn(Warn(Warn(db, rast.trunc, "ignoring row's 'trucated' attribute"),
                            rast.cut, "ignoring row's 'cut' attribute"),
                       rast.meta # <<>>, "ignoring meta-row")
        ref == Len(db.heap) + 1
        merged == IF StoreHas(db.rows, namespace, id.oid)
                  THEN DictUpdate(db.heap[db.rows[namespace][id.oid]], cells.row)
                  ELSE cells.row
    IN  IF ~cells.ok THEN [err |-> "KeyError", db |-> db, ref |-> 0]
        ELSE IF ~id.ok THEN [err |-> "KeyError", db |-> db, ref |-> 0]
        ELSE IF namespace = None THEN [err |-> "AssertionError", db |-> db, ref |-> 0]
        ELSE [err |-> "none",
              db  |-> [warned EXCEPT !.heap = Append(@, merged),
                                     !.rows = StoreSet(@, namespace, id.oid, ref)],
              ref |-> ref]

\* _MorkRow.fromAst without its assertion that a namespace was found
RowFromAstNoAssert(db, rast, defaultNamespace) ==
    LET cells == RowCellsFrom(db.dicts, rast.cells, 1, EmptyRow)
        id == DissectId(db.dicts, rast.rowid)
        namespace == IF id.namespace = None THEN defaultNamespace ELSE id.namespace
        warned == Warn(Warn(Warn(db, rast.trunc, "ignoring row's 'trucated' attribute"),
                            rast.cut, "ignoring row's 'cut' attribute"),
                       rast.meta # <<>>, "ignoring meta-row")
        ref == Len(db.heap) + 1
    IN  IF ~cells.ok THEN [err |-> "KeyError", db |-> db, ref |-> 0]
        ELSE IF ~id.ok THEN [err |-> "KeyError", db |-> db, ref |-> 0]
        ELSE [err |-> "none",
              db  |-> [warned EXCEPT !.heap = Append(@, cells.row),
                                     !.rows = StoreSet(@, namespace, id.oid, ref)],
              ref |-> ref]

\* _MorkRow.fromAst applying the 'cut' marker: a cut row is not stored
RowFromAstCutApplied(db, rast, defaultNamespace) ==
    LET cells == RowCellsFrom(db.dicts, rast.cells, 1, EmptyRow)
        id == DissectId(db.dicts, rast.rowid)
        namespace == IF id.namespace = None THEN defaultNamespace ELSE id.namespace
        warned == Warn(Warn(Warn(db, rast.trunc, "ignoring row's 'trucated' attribute"),
                            rast.cut, "ignoring row's 'cut' attribute"),
                       rast.meta # <<>>, "ignoring meta-row")
        ref == Len(db.heap) + 1
    IN  IF ~cells.ok THEN [err |-> "KeyError", db |-> db, ref |-> 0]
        ELSE IF ~id.ok THEN [err |-> "KeyError", db |-> db, ref |-> 0]
        ELSE IF namespace = None THEN [err |-> "AssertionError", db |-> db, ref |-> 0]
        ELSE IF rast.cut
        THEN [err |-> "none", db |-> [warned EXCEPT !.heap = Append(@, cells.row)], ref |-> ref]
        ELSE [err |-> "none",
              db  |-> [warned EXCEPT !.heap = Append(@, cells.row),
                                     !.rows = StoreSet(@, namespace, id.oid, ref)],
              ref |-> ref]

\* _MorkRow.fromAst: the result also names the reference of the new row
RowFromAst(db, rast, defaultNamespace) ==
    LET cells == RowCellsFrom(db.dicts, rast.cells, 1, EmptyRow)
        id == DissectId(db.dicts, rast.rowid)
        namespace == IF id.namespace = None THEN defaultNamespace ELSE id.namespace
        warned == Warn(Warn(Warn(db, rast.trunc, "ignoring row's 'trucated' attribute"),
                            rast.cut, "ignoring row's 'cut' attribute"),
                       rast.meta # <<>>, "ignoring meta-row")
        ref == Len(db.heap) + 1
    IN  IF ~cells.ok THEN [err |-> "KeyError", db |-> db, ref |-> 0]
        ELSE IF ~id.ok THEN [err |-> "KeyError", db |-> db, ref |-> 0]
        ELSE IF namespace = None THEN [err |-> "AssertionError", db |-> db, ref |-> 0]
        ELSE [err |-> "none",
              db  |-> [warned EXCEPT !.heap = Append(@, cells.row),
                                     !.rows = StoreSet(@, namespace, id.oid, ref)],
              ref |-> ref]

RECURSIVE TableRowsFromLenient(_, _, _, _, _)
\* the loop over ast.rows, leaving out a referenced row the Row Store lacks
TableRowsFromLenient(db, entries, i, namespace, acc) ==
    IF i > Len(entries) THEN [err |-> "none", db |-> db, rows |-> acc]
    ELSE IF entries[i].kind = "ObjectId"
    THEN LET id == DissectId(db.dicts, entries[i])
             rowNamespace == IF id.namespace = None THEN namespace ELSE id.namespace
         IN  IF ~id.ok THEN [err |-> "KeyError", db |-> db, rows |-> acc]
             ELSE IF ~StoreHas(db.rows, rowNamespace, id.oid)
             THEN TableRowsFromLenient(db, entries, i + 1, namespace, acc)
             ELSE TableRowsFromLenient(db, entries, i + 1, namespace,
                                       Append(acc, db.rows[rowNamespace][id.oid]))
    ELSE LET r == RowFromAst(db, entries[i], namespace)
         IN  IF r.err # "none" THEN [err |-> r.err, db |-> r.db, rows |-> acc]
             ELSE TableRowsFromLenient(r.db, entries, i + 1, namespace, Append(acc, r.ref))

RECURSIVE TableRowsFrom(_, _, _, _, _)
\* _MorkTable.fromAst, the loop over ast.rows from entry i with rows = acc
TableRowsFrom(db, entries, i, namespace, acc) ==
    IF i > Len(entries) THEN [err |-> "none", db |-> db, rows |-> acc]
    ELSE IF entries[i].kind = "ObjectId"
    THEN LET id == DissectId(db.dicts, entries[i])
             rowNamespace == IF id.namespace = None THEN namespace ELSE id.namespace
         IN  IF ~id.ok THEN [err |-> "KeyError", db |-> db, rows |-> acc]
             ELSE IF ~StoreHas(db.rows, rowNamespace, id.oid)
             THEN [err |-> "KeyError", db |-> db, rows |-> acc]
             ELSE TableRowsFrom(db, entries, i + 1, namespace,
                                Append(acc, db.rows[rowNamespace][id.oid]))
    ELSE LET r == RowFromAst(db, entries[i], namespace)
         IN  IF r.err # "none" THEN [err |-> r.err, db |-> r.db, rows |-> acc]
             ELSE TableRowsFrom(r.db, entries, i + 1, namespace, Append(acc, r.ref))

\* _MorkTable.fromAst handing its rows namespace "c" in place of its own
TableFromAstWrongDefault(db, tast) ==
    LET id == DissectId(db.dicts, tast.tableid)
        body == TableRowsFrom(db, tast.rows, 1, NsC, <<>>)
        warned == Warn(Warn(body.db, tast.trunc, "ignoring table's 'truncated' attribute"),
                       tast.meta # <<>>, "ignoring meta-table")
    IN  IF ~id.ok THEN [err |-> "KeyError", db |-> db]
        ELSE IF id.namespace = None THEN [err |-> "AssertionError", db |-> db]
        ELSE IF body.err # "none" THEN [err |-> body.err, db |-> body.db]
        ELSE [err |-> "none",
              db  |-> [warned EXCEPT !.tables = StoreSet(@, id.namespace, id.oid, body.rows)]]

\* _MorkTable.fromAst
TableFromAst(db, tast) ==
    LET id == DissectId(db.dicts, tast.tableid)
        body == TableRowsFrom(db, tast.rows, 1, id.namespace, <<>>)
        warned == Warn(Warn(body.db, tast.trunc, "ignoring table's 'truncated' attribute"),
                       tast.meta # <<>>, "ignoring meta-table")
    IN  IF ~id.ok THEN [err |-> "KeyError", db |-> db]
        ELSE IF id.namespace = None THEN [err |-> "AssertionError", db |-> db]
        ELSE IF body.err # "none" THEN [err |-> body.err, db |-> body.db]
        ELSE [err |-> "none",
              db  |-> [warned EXCEPT !.tables = StoreSet(@, id.namespace, id.oid, body.rows)]]

RECURSIVE DictCellsFrom(_, _, _)
\* _MorkDict.fromAst, the loop over ast.cells from cell i; acc is [ok, cells, warns]
DictCellsFrom(cells, i, acc) ==
    IF i > Len(cells) THEN acc
    ELSE LET v == Unescape(cells[i].value.s)
         IN  IF ~v.ok THEN [acc EXCEPT !.ok = FALSE]
             ELSE DictCellsFrom(cells, i + 1,
                    [ok    |-> TRUE,
                     cells |-> DictSet(acc.cells, cells[i].column.s, v.val),
                     warns |-> IF cells[i].cut
                               THEN Append(acc.warns, "ignoring cell's 'cut' attribute")
                               ELSE acc.warns])

RECURSIVE MetaNamespaceFrom(_, _)
\* the loop over ast.meta[0].cells: the value of the first cell of column 'a'
MetaNamespaceFrom(cells, i) ==
    IF i > Len(cells) THEN NsA
    ELSE IF cells[i].column = Str(NsA) THEN cells[i].value.s
    ELSE MetaNamespaceFrom(cells, i + 1)

\* the target namespace with the meta-dict left unread
DictNamespaceIgnoreMeta(dast) == NsA

\* the namespace a Dict item targets
DictNamespace(dast) ==
    IF dast.meta # <<>> THEN MetaNamespaceFrom(dast.meta[1].cells, 1) ELSE NsA

\* _MorkDict.fromAst updating every dictionary there is, whatever the target
DictFromAstUpdatesAll(db, dast) ==
    LET built == DictCellsFrom(dast.cells, 1,
                               [ok |-> TRUE, cells |-> MorkDictInit, warns |-> db.warns])
        warned == [db EXCEPT !.warns = built.warns]
        namespace == DictNamespace(dast)
        all == [ns \in DOMAIN warned.dicts \cup {namespace} |->
                  IF ns \in DOMAIN warned.dicts THEN DictUpdate(warned.dicts[ns], built.cells)
                                                ELSE built.cells]
    IN  IF ~built.ok THEN [err |-> "KeyError", db |-> warned]
        ELSE IF Len(dast.meta) > 1 THEN [err |-> "AssertionError", db |-> warned]
        ELSE [err |-> "none", db |-> [warned EXCEPT !.dicts = all]]

\* _MorkDict.fromAst
DictFromAst(db, dast) ==
    LET built == DictCellsFrom(dast.cells, 1,
                               [ok |-> TRUE, cells |-> MorkDictInit, warns |-> db.warns])
        warned == [db EXCEPT !.warns = built.warns]
        namespace == DictNamespace(dast)
    IN  IF ~built.ok THEN [err |-> "KeyError", db |-> warned]
        ELSE IF Len(dast.meta) > 1 THEN [err |-> "AssertionError", db |-> warned]
        ELSE IF namespace \notin DOMAIN warned.dicts
        THEN [err |-> "none", db |-> [warned EXCEPT !.dicts = DictSet(@, namespace, built.cells)]]
        ELSE [err |-> "none",
              db  |-> [warned EXCEPT !.dicts[namespace] = DictUpdate(@, built.cells)]]

(***************************************************************************)
(* The syntax trees explored: every sequence of MaxItems items drawn from  *)
(* Items.  Texts used in them:                                             *)
(***************************************************************************)
Tx66 == <<54, 54>>          \* "66"

Tx5 == <<53>>               \* "5"

Tx80 == <<56, 48>>          \* "80", an alias no dictionary defines

Tx1 == <<49>>               \* "1"

Tx2 == <<50>>               \* "2"

Tx9 == <<57>>               \* "9"

TxX == <<120>>              \* "x"

TxY == <<121>>              \* "y"

TxK == <<107>>              \* "k"

TxJ == <<106>>              \* "j"

TxN == <<110>>              \* "n"

TxM == <<109>>              \* "m"

TxT == <<116>>              \* "t"

TxZ == <<122>>              \* "z", a namespace no dictionary has

TxHi == <<104, 105>>        \* "hi"

TxEsc6B == <<36, 54, 66>>   \* "$6B", which decodes to "k"

TxEsc41 == <<36, 52, 49>>   \* "$41", which decodes to "A"

TxEscParen == <<92, 41>>    \* "\)", which decodes to ")"

TxEscA == <<92, 97>>        \* "\a", not in _unescapeMap

TxVEsc31 == <<118, 36, 51, 49>> \* "v$31", which decodes to "v1"

Dict(cells, meta) == [kind |-> "Dict", cells |-> cells, meta |-> meta]

Row(rowid, cells, trunc, cut, meta) ==
    [kind |-> "Row", rowid |-> rowid, cells |-> cells,
     trunc |-> trunc, cut |-> cut, meta |-> meta]

Table(tableid, trows, trunc, meta) ==
    [kind |-> "Table", tableid |-> tableid, rows |-> trows, trunc |-> trunc, meta |-> meta]

MetaTo(ns) == [cells |-> <<Cell(Str(TxX), Str(TxY), FALSE), Cell(Str(NsA), Str(ns), FALSE)>>]

DictItems ==
    { Dict(<<Cell(Str(Tx66), Str(TxHi), FALSE)>>, <<>>),
      Dict(<<Cell(Str(TxX), Str(TxY), TRUE)>>, <<>>),
      Dict(<<Cell(Str(Tx5), Str(TxN), FALSE)>>, <<MetaTo(NsC)>>),
      Dict(<<Cell(Str(Tx66), Str(TxEsc6B), FALSE), Cell(Str(TxX), Str(TxJ), FALSE)>>,
           <<MetaTo(NsC)>>),
      Dict(<<Cell(Str(TxX), Str(TxEscParen), FALSE)>>, <<MetaTo(TxN)>>),
      Dict(<<Cell(Str(TxX), Str(TxY), FALSE)>>, <<MetaTo(NsC), MetaTo(TxN)>>),
      Dict(<<Cell(Str(TxY), Str(TxY), TRUE), Cell(Str(TxX), Str(TxEscA), FALSE)>>, <<>>) }

RowItems ==
    { Row(ObjectId(Tx1, Str(TxN)), <<Cell(Str(TxK), Str(TxVEsc31), FALSE)>>,
          FALSE, FALSE, <<>>),
      Row(ObjectId(Tx1, Str(TxN)), <<Cell(Str(TxJ), Str(TxHi), FALSE)>>,
          FALSE, FALSE, <<>>),
      Row(ObjectId(Tx1, NoScope), <<Cell(Str(TxK), Str(TxY), FALSE)>>,
          FALSE, FALSE, <<>>),
      Row(ObjectId(Tx1, ObjectRef(Tx5, NoScope)),
          <<Cell(ObjectRef(Tx66, NoScope), ObjectRef(Tx66, NoScope), FALSE),
            Cell(Str(TxJ), ObjectRef(Tx66, Str(NsC)), FALSE),
            Cell(ObjectRef(Tx5, Str(NsA)), Str(TxY), FALSE)>>,
          FALSE, FALSE, <<>>),
      Row(ObjectId(Tx2, Str(TxN)), <<Cell(ObjectRef(TxX, NoScope), Str(TxY), FALSE)>>,
          FALSE, FALSE, <<>>),
      Row(ObjectId(Tx2, Str(TxN)), <<Cell(Str(TxK), ObjectRef(Tx66, Str(TxZ)), FALSE)>>,
          FALSE, FALSE, <<>>),
      Row(ObjectId(Tx2, Str(TxM)),
          <<Cell(Str(TxEsc41), Str(TxEsc41), TRUE), Cell(Str(TxEscParen), Str(TxEscParen), FALSE)>>,
          TRUE, TRUE, <<MetaTo(NsC)>>),
      Row(ObjectId(Tx2, ObjectRef(Tx80, NoScope)), <<Cell(Str(TxK), Str(TxY), FALSE)>>,
          FALSE, FALSE, <<>>) }

TableItems ==
    { Table(ObjectId(TxT, Str(TxN)), <<ObjectId(Tx1, NoScope)>>, FALSE, <<>>),
      Table(ObjectId(TxT, Str(TxM)),
            <<Row(ObjectId(Tx1, NoScope), <<Cell(Str(TxK), ObjectRef(Tx66, NoScope), FALSE)>>,
                  FALSE, FALSE, <<>>)>>,
            TRUE, <<>>),
      Table(ObjectId(TxT, NoScope),
            <<Row(ObjectId(Tx1, Str(TxN)), <<Cell(Str(TxK), Str(TxY), FALSE)>>,
                  FALSE, FALSE, <<>>)>>,
            FALSE, <<>>),
      Table(ObjectId(TxT, Str(TxM)),
            <<ObjectId(Tx1, Str(TxN)),
              Row(ObjectId(Tx1, Str(TxN)), <<Cell(Str(TxJ), Str(TxY), FALSE)>>,
                  FALSE, FALSE, <<>>)>>,
            FALSE, <<>>),
      Table(ObjectId(TxT, Str(TxM)),
            <<Row(ObjectId(Tx2, NoScope), <<Cell(Str(TxK), Str(TxY), FALSE)>>,
                  FALSE, TRUE, <<>>),
              ObjectId(Tx9, NoScope)>>,
            FALSE, <<>>),
      Table(ObjectId(Tx2, ObjectRef(Tx5, NoScope)), <<>>, FALSE, <<MetaTo(NsC)>>) }

OtherItems == { [kind |-> "Group"] }

Items == DictItems \cup RowItems \cup TableItems \cup OtherItems

(***************************************************************************)
(* The state machine: MorkDatabase.fromAst walking ast.items.              *)
(*   pc     : the index of the item the loop is at                         *)
(*   status : "building"; "done" once fromAst has returned the database;   *)
(*            "failed" once an exception has left fromAst (err names it)   *)
(*   adds   : the calls of _MorkTable.addRow made on the returned database  *)
(***************************************************************************)
NotRun == [run |-> FALSE, ok |-> FALSE, val |-> <<>>]

Db == [dicts |-> dicts, rows |-> rows, tables |-> tables, heap |-> heap, warns |-> warns]

\* MorkDatabase.__init__
FreshDb == [dicts  |-> [ns \in {NsA, NsC} |-> MorkDictInit],
            rows   |-> EmptyStore,
            tables |-> EmptyStore,
            heap   |-> <<>>,
            warns  |-> <<>>]

InitDb ==
    /\ pc = 1
    /\ status = "building"
    /\ err = "none"
    /\ dicts = FreshDb.dicts
    /\ rows = FreshDb.rows
    /\ tables = FreshDb.tables
    /\ heap = FreshDb.heap
    /\ warns = FreshDb.warns

Init ==
    /\ ast \in [1..MaxItems -> Items]
    /\ InitDb
    /\ adds = 0
    /\ inp = <<>>
    /\ out = NotRun

\* the loop going on to the next item after an exception
ApplyContinue(r) ==
    /\ dicts' = r.db.dicts
    /\ rows' = r.db.rows
    /\ tables' = r.db.tables
    /\ heap' = r.db.heap
    /\ warns' = r.db.warns
    /\ err' = r.err
    /\ status' = "building"
    /\ pc' = pc + 1
    /\ UNCHANGED <<ast, adds, inp, out>>

\* the builder returned, or raised: the loop goes on only when it returned
Apply(r) ==
    /\ dicts' = r.db.dicts
    /\ rows' = r.db.rows
    /\ tables' = r.db.tables
    /\ heap' = r.db.heap
    /\ warns' = r.db.warns
    /\ err' = r.err
    /\ status' = IF r.err = "none" THEN "building" ELSE "failed"
    /\ pc' = IF r.err = "none" THEN pc + 1 ELSE pc
    /\ UNCHANGED <<ast, adds, inp, out>>

AtItem == status = "building" /\ pc <= Len(ast)

BuildDict == AtItem /\ ast[pc].kind = "Dict" /\ Apply(DictFromAst(Db, ast[pc]))

BuildRow == AtItem /\ ast[pc].kind = "Row" /\ Apply(RowFromAst(Db, ast[pc], None))

BuildTable == AtItem /\ ast[pc].kind = "Table" /\ Apply(TableFromAst(Db, ast[pc]))

\* builder is None: warn and continue
SkipItem ==
    /\ AtItem
    /\ ast[pc].kind \notin {"Dict", "Row", "Table"}
    /\ Apply([err |-> "none", db |-> Warn(Db, TRUE, "skipping item")])

\* return self
Return ==
    /\ status = "building"
    /\ pc > Len(ast)
    /\ status' = "done"
    /\ UNCHANGED <<ast, pc, err, dicts, rows, tables, heap, warns, adds, inp, out>>

\* a row the caller of addRow has made: r = _MorkRow(); r['k'] = 'hi'
CallerRow == [c \in {TxK} |-> TxHi]

\* _MorkTable.addRow(row) on table t of the returned database: self._rows gets
\* row appended.  row is a row object the database gives the caller (db.rows[k],
\* or an entry of a table), or the row the caller has made, which is in no store.
AddRow ==
    /\ status = "done"
    /\ adds < MaxAdds
    /\ \E t \in StoreKeys(tables) :
          LET held == {rows[k[1]][k[2]] : k \in StoreKeys(rows)}
                      \cup UNION {{tables[u[1]][u[2]][i] : i \in DOMAIN tables[u[1]][u[2]]}
                                   : u \in StoreKeys(tables)}
              made == Len(heap) + 1
          IN  \E row \in held \cup {made} :
                 /\ heap' = IF row = made THEN Append(heap, CallerRow) ELSE heap
                 /\ tables' = StoreSet(tables, t[1], t[2], Append(tables[t[1]][t[2]], row))
    /\ adds' = adds + 1
    /\ UNCHANGED <<ast, pc, status, err, dicts, rows, warns, inp, out>>

Next == BuildDict \/ BuildRow \/ BuildTable \/ SkipItem \/ Return \/ AddRow

Spec == Init /\ [][Next]_vars

(***************************************************************************)
(* fromAst as a function of the tree: the database, or the exception, that *)
(* the loop over items ends with.                                          *)
(***************************************************************************)
\* builder(item, self), or the warning for an item without builder
RunItem(db, item) ==
    IF item.kind = "Dict" THEN DictFromAst(db, item)
    ELSE IF item.kind = "Row" THEN [err |-> RowFromAst(db, item, None).err,
                                    db  |-> RowFromAst(db, item, None).db]
    ELSE IF item.kind = "Table" THEN TableFromAst(db, item)
    ELSE [err |-> "none", db |-> Warn(db, TRUE, "skipping item")]

RECURSIVE RunFrom(_, _, _)
\* the loop over items from item i
RunFrom(db, items, i) ==
    IF i > Len(items) THEN [err |-> "none", db |-> db]
    ELSE LET r == RunItem(db, items[i])
         IN  IF r.err # "none" THEN r ELSE RunFrom(r.db, items, i + 1)

\* MorkDatabase.fromAst(Database(items))
FromAst(items) == RunFrom(FreshDb, items, 1)

(***************************************************************************)
(* The escape decoder alone, on every text of at most MaxLen characters    *)
(* over EscAlphabet.                                                       *)
(***************************************************************************)
EscAlphabet == {BSlash, Dollar, 41, 52, 49, CR, LF, 97, 71}

RECURSIVE TextsUpTo(_)
TextsUpTo(n) ==
    IF n = 0 THEN {<<>>}
    ELSE LET shorter == TextsUpTo(n - 1)
         IN  shorter \cup {Append(t, c) : t \in shorter, c \in EscAlphabet}

InitUnescape ==
    /\ ast = <<>>
    /\ InitDb
    /\ adds = 0
    /\ inp \in TextsUpTo(MaxLen)
    /\ out = NotRun

\* db._unescape(inp)
CallUnescape ==
    /\ ~out.run
    /\ out' = [run |-> TRUE, ok |-> Unescape(inp).ok, val |-> Unescape(inp).val]
    /\ UNCHANGED <<ast, pc, status, err, dicts, rows, tables, heap, warns, adds, inp>>

NextUnescape == CallUnescape

SpecUnescape == InitUnescape /\ [][NextUnescape]_vars

(***************************************************************************)
(* Helpers of the properties.                                              *)
(***************************************************************************)
\* the items fromAst has processed without an exception
Processed == 1..(pc - 1)

Running == status \in {"building", "done"}

Max(S) == CHOOSE x \in S : \A y \in S : y <= x

\* alias resolves to text v in dictionary ns of d
Resolves(d, ns, alias, v) == ns \in DOMAIN d /\ alias \in DOMAIN d[ns] /\ d[ns][alias] = v

\* the aliases a Dict item defines
DefinedBy(item) == {item.cells[i].column.s : i \in DOMAIN item.cells}

\* the decoded value a Dict item gives alias (its last cell of that column)
GivenBy(item, alias) ==
    Unescape(item.cells[Max({i \in DOMAIN item.cells : item.cells[i].column.s = alias})].value.s).val

\* the namespaces the explored Dict items target
TargetNamespaces == {NsA, NsC, TxN}

\* C1 (as claimed): after a sequence of Dict items that all target namespace N,
\* dictionary N maps every alias some item defines to the value given by the
\* last item that defines it, aliases of the pre-seeded range included.
C1_OverlayLaw ==
    \A N \in TargetNamespaces :
        ( /\ Running
          /\ Processed # {}
          /\ \A j \in Processed : ast[j].kind = "Dict" /\ DictNamespace(ast[j]) = N )
        => \A j \in Processed : \A alias \in DefinedBy(ast[j]) :
              LET last == Max({l \in Processed : alias \in DefinedBy(ast[l])})
              IN  Resolves(dicts, N, alias, GivenBy(ast[last], alias))

\* the two-hex-digit alias of i, "00".."7F"
TwoHexDigits(i) == <<HexDigit(i \div 16), HexDigit(i % 16)>>

UpperHexDigits == <<48, 49, 50, 51, 52, 53, 54, 55, 56, 57, 65, 66, 67, 68, 69, 70>>

\* the upper-case hexadecimal numeral of i without padding, "0".."F", "10".."7F"
UnpaddedHex(i) ==
    IF i < 16 THEN <<UpperHexDigits[i + 1]>>
              ELSE <<UpperHexDigits[(i \div 16) + 1], UpperHexDigits[(i % 16) + 1]>>

Fresh == pc = 1 /\ status = "building"

\* C5 (as claimed): in a fresh database every code point i in 0x00..0x7F is
\* the value of its two-hex-digit alias ("00", "01", ..) in "a" and in "c".
C5_TwoDigitBootstrap ==
    Fresh => \A i \in 0..127 : \A ns \in {NsA, NsC} :
                Resolves(dicts, ns, TwoHexDigits(i), <<i>>)

\* C5 (amended): in a fresh database every code point i in 0x00..0x7F is the
\* value, in "a" and in "c", of its upper-case hexadecimal numeral written
\* without padding ("0".."F", "10".."7F"), and the dictionaries hold no other alias.
C5_UnpaddedBootstrap ==
    Fresh => \A ns \in {NsA, NsC} :
                /\ \A i \in 0..127 : Resolves(dicts, ns, UnpaddedHex(i), <<i>>)
                /\ DOMAIN dicts[ns] = {UnpaddedHex(i) : i \in 0..127}

\* C5 witness: a fresh database, where "28" is "(" in "a" and "F" is chr(15) in "c"
C5_Witness ==
    /\ Fresh
    /\ Resolves(dicts, NsA, <<50, 56>>, <<40>>)
    /\ Resolves(dicts, NsC, <<70>>, <<15>>)
    /\ <<48, 70>> \notin DOMAIN dicts[NsC]

\* C6 (as claimed): _unescape never fails, and a backslash followed by one
\* character other than a line continuation decodes to that character.
C6_UnescapeTotal ==
    out.run =>
        /\ out.ok
        /\ (Len(inp) = 2 /\ inp[1] = BSlash /\ inp[2] # LF) => out.val = <<inp[2]>>

\* the identifier of a table body entry: the entry itself, or the inline row's
EntryId(e) == IF e.kind = "ObjectId" THEN e ELSE e.rowid

\* the Row Store key of a body entry of a table of namespace tns: the table's
\* namespace when the identifier has no scope, else the identifier's own
EntryKey(d, e, tns) ==
    LET id == DissectId(d, EntryId(e))
    IN  <<IF EntryId(e).scope.t = "None" THEN tns ELSE id.namespace, id.oid>>

\* the inline rows among the first n body entries of table t that write key k
Writers(d, t, tns, k, n) ==
    {j \in 1..n : t.rows[j].kind = "Row" /\ EntryKey(d, t.rows[j], tns) = k}

\* table t names a row by a bare identifier whose key is not in the Row Store
\* and is written by no inline row earlier in its body
MissingBareRef(t) ==
    LET tid == DissectId(dicts, t.tableid)
    IN  /\ tid.ok
        /\ tid.namespace # None
        /\ \E i \in DOMAIN t.rows :
              /\ t.rows[i].kind = "ObjectId"
              /\ DissectId(dicts, t.rows[i]).ok
              /\ LET k == EntryKey(dicts, t.rows[i], tid.namespace)
                 IN  /\ ~StoreHas(rows, k[1], k[2])
                     /\ Writers(dicts, t, tid.namespace, k, i - 1) = {}

\* C2: a Table item naming a row that is not yet in the Row Store fails the
\* build with a KeyError (a LookupError) and leaves the Table Store as it was;
\* once failed the build stays failed, whatever items follow.
C2_ForwardReference ==
    [][ /\ (AtItem /\ ast[pc].kind = "Table" /\ MissingBareRef(ast[pc]))
            => (status' = "failed" /\ err' = "KeyError" /\ tables' = tables /\ pc' = pc)
        /\ status = "failed" => (status' = "failed" /\ tables' = tables) ]_vars

\* C2 witness: the build failed at a table naming a missing row, and a Row item
\* for that very key comes later in the file
C2_Witness ==
    /\ status = "failed"
    /\ err = "KeyError"
    /\ ast[pc].kind = "Table"
    /\ MissingBareRef(ast[pc])
    /\ tables = EmptyStore
    /\ \E j \in (pc + 1)..Len(ast) :
          /\ ast[j].kind = "Row"
          /\ ast[j].rowid.scope.t = "str"
          /\ \E i \in DOMAIN ast[pc].rows :
                /\ ast[pc].rows[i].kind = "ObjectId"
                /\ EntryKey(dicts, ast[pc].rows[i], DissectId(dicts, ast[pc].tableid).namespace)
                     = <<ast[j].rowid.scope.s, ast[j].rowid.objectid>>

\* C3: when a Table item is built, an inline row is written to the Row Store,
\* and a bare row identifier is looked up, under the table's namespace if the
\* row identifier has no scope and under the identifier's own namespace if it has.
C3_InlineNamespace ==
    [][ (AtItem /\ ast[pc].kind = "Table" /\ status' = "building" /\ pc' = pc + 1) =>
        LET t == ast[pc]
            tid == DissectId(dicts, t.tableid)
            body == tables'[tid.namespace][tid.oid]
            n == Len(t.rows)
        IN  /\ Len(body) = n
            /\ \A i \in 1..n :
                  LET k == EntryKey(dicts, t.rows[i], tid.namespace)
                  IN  IF t.rows[i].kind = "Row"
                      THEN /\ body[i] > Len(heap)
                           /\ StoreHas(rows', k[1], k[2])
                           /\ rows'[k[1]][k[2]] = body[Max(Writers(dicts, t, tid.namespace, k, n))]
                      ELSE IF Writers(dicts, t, tid.namespace, k, i - 1) = {}
                      THEN StoreHas(rows, k[1], k[2]) /\ body[i] = rows[k[1]][k[2]]
                      ELSE body[i] = body[Max(Writers(dicts, t, tid.namespace, k, i - 1))] ]_vars

\* C3 witness: a table of namespace "m" was built whose inline row has no scope,
\* and the row is in the Row Store under "m" and the store has no other namespace
C3_Witness ==
    /\ Running
    /\ \E j \in Processed :
          /\ ast[j].kind = "Table"
          /\ ast[j].tableid.scope = Str(TxM)
          /\ \E i \in DOMAIN ast[j].rows :
                /\ ast[j].rows[i].kind = "Row"
                /\ ast[j].rows[i].rowid.scope.t = "None"
                /\ StoreHas(rows, TxM, ast[j].rows[i].rowid.objectid)
    /\ DOMAIN rows = {TxM}

\* the dictionary a symbolic reference is resolved in
RefNamespace(x, default) ==
    IF x.obj.scope.t = "None" THEN default ELSE DissectId(dicts, x.obj).namespace

\* symbolic reference x, resolved in its own namespace or else in default, is v
RefIs(x, default, v) == Resolves(dicts, RefNamespace(x, default), x.obj.objectid, v)

\* cell is stored under column c (a literal column under the text as written)
ColumnIs(cell, c) ==
    IF cell.column.t = "ObjectRef" THEN RefIs(cell.column, NsC, c) ELSE c = cell.column.s

\* every cell of cells is in the row stored under its column, a symbolic column
\* resolved in "c"; and unless a later cell has the same column its symbolic
\* value is resolved in "a"; a reference naming a namespace is resolved there
CellsResolved(cells, stored) ==
    \A i \in DOMAIN cells :
        \E c \in DOMAIN stored :
            /\ ColumnIs(cells[i], c)
            /\ ( /\ cells[i].value.t = "ObjectRef"
                 /\ \A l \in (i + 1)..Len(cells) : ~ColumnIs(cells[l], c) )
               => RefIs(cells[i].value, NsA, stored[c])

\* C4: the row a Row item (top-level, or inline in a table) has just stored
\* holds its cells resolved against the dictionaries as they stand: a symbolic
\* value in "a", a symbolic column in "c", a reference naming a namespace in it.
C4_CellDefaults ==
    (Running /\ pc > 1) =>
        LET item == ast[pc - 1]
        IN  /\ item.kind = "Row" =>
                 LET id == DissectId(dicts, item.rowid)
                 IN  CellsResolved(item.cells, heap[rows[id.namespace][id.oid]])
            /\ item.kind = "Table" =>
                 LET tns == DissectId(dicts, item.tableid).namespace
                 IN  \A i \in DOMAIN item.rows :
                        LET k == EntryKey(dicts, item.rows[i], tns)
                        IN  ( /\ item.rows[i].kind = "Row"
                              /\ Writers(dicts, item, tns, k, Len(item.rows)) \subseteq 1..i )
                            => CellsResolved(item.rows[i].cells, heap[rows[k[1]][k[2]]])

\* C4 witness: after "66" was redefined in "a", a row with the cell (^66 = ^66)
\* was stored with the value "hi" that "a" gives "66" now
C4_Witness ==
    /\ Running
    /\ pc > 2
    /\ ast[pc - 1].kind = "Row"
    /\ \E i \in DOMAIN ast[pc - 1].cells :
          /\ ast[pc - 1].cells[i].value = ObjectRef(Tx66, NoScope)
          /\ ast[pc - 1].cells[i].column = ObjectRef(Tx66, NoScope)
    /\ Resolves(dicts, NsA, Tx66, TxHi)
    /\ LET id == DissectId(dicts, ast[pc - 1].rowid)
       IN  heap[rows[id.namespace][id.oid]][dicts[NsC][Tx66]] = TxHi

\* the row object the Row Store holds under key k
StoredRow(k) == heap[rows[k[1]][k[2]]]

\* C7 (as claimed): the row a Row item has just stored maps, for every cell
\* with a literal column and a literal value (and no later cell of the same
\* column), the decoded column to the decoded value.
C7_LiteralDecoding ==
    (Running /\ pc > 1 /\ ast[pc - 1].kind = "Row") =>
        LET item == ast[pc - 1]
            id == DissectId(dicts, item.rowid)
            stored == StoredRow(<<id.namespace, id.oid>>)
        IN  \A i \in DOMAIN item.cells :
               ( /\ item.cells[i].column.t = "str"
                 /\ item.cells[i].value.t = "str"
                 /\ \A l \in (i + 1)..Len(item.cells) :
                       item.cells[l].column.t = "str"
                       /\ Unescape(item.cells[l].column.s).val
                            # Unescape(item.cells[i].column.s).val )
               => /\ Unescape(item.cells[i].column.s).val \in DOMAIN stored
                  /\ stored[Unescape(item.cells[i].column.s).val]
                       = Unescape(item.cells[i].value.s).val

\* the columns and values of a Row node, resolved against the dictionaries
RowOf(r) == RowCellsFrom(dicts, r.cells, 1, EmptyRow).row

\* C8: the Row Store entry of the key a Row occurrence (top-level, or the last
\* inline row of that key in a table) has just written holds exactly that
\* occurrence's columns and values, whatever row the key held before.
C8_RowReplacement ==
    (Running /\ pc > 1) =>
        LET item == ast[pc - 1]
        IN  /\ item.kind = "Row" =>
                 LET id == DissectId(dicts, item.rowid)
                 IN  /\ StoreHas(rows, id.namespace, id.oid)
                     /\ StoredRow(<<id.namespace, id.oid>>) = RowOf(item)
            /\ item.kind = "Table" =>
                 LET tns == DissectId(dicts, item.tableid).namespace
                 IN  \A i \in DOMAIN item.rows :
                        LET k == EntryKey(dicts, item.rows[i], tns)
                        IN  ( /\ item.rows[i].kind = "Row"
                              /\ Writers(dicts, item, tns, k, Len(item.rows)) \subseteq 1..i )
                            => /\ StoreHas(rows, k[1], k[2])
                               /\ StoredRow(k) = RowOf(item.rows[i])

\* C8 witness: two Row occurrences of one key with different columns were
\* processed, and the stored row lacks the column only the earlier one had
C8_Witness ==
    /\ Running
    /\ pc > 2
    /\ ast[pc - 1].kind \in {"Row", "Table"}
    /\ ast[pc - 2].kind = "Row"
    /\ StoreHas(rows, TxN, Tx1)
    /\ DOMAIN RowOf(ast[pc - 2]) = {TxK}
    /\ DissectId(dicts, ast[pc - 2].rowid).namespace = TxN
    /\ DOMAIN StoredRow(<<TxN, Tx1>>) = {TxJ}

\* no key of the store has the absent namespace
NamespacesPresent(store) == \A k \in StoreKeys(store) : k[1] # None

\* C9: no key of the Row Store or of the Table Store ever has an absent
\* namespace; a top-level Row item whose identifier has no scope, and a Table
\* item whose identifier has no scope, fail and leave both stores as they were.
C9_NamespaceInvariant ==
    /\ [](NamespacesPresent(rows) /\ NamespacesPresent(tables))
    /\ [][ ( /\ AtItem
             /\ \/ ast[pc].kind = "Row" /\ ast[pc].rowid.scope.t = "None"
                \/ ast[pc].kind = "Table" /\ ast[pc].tableid.scope.t = "None" )
           => (status' = "failed" /\ rows' = rows /\ tables' = tables /\ heap' = heap) ]_vars

\* C9 witness: a Row item without scope failed on the assertion after an
\* earlier item had filled the Row Store
C9_Witness ==
    /\ status = "failed"
    /\ err = "AssertionError"
    /\ ast[pc].kind = "Row"
    /\ ast[pc].rowid.scope.t = "None"
    /\ StoreKeys(rows) # {}

\* reference x, resolved in its own namespace or else in default, is undefined
RefUndefined(x, default) ==
    ~( /\ RefNamespace(x, default) \in DOMAIN dicts
       /\ x.obj.objectid \in DOMAIN dicts[RefNamespace(x, default)] )

\* the scope of identifier oid is a reference that is undefined
ScopeUndefined(oid) == oid.scope.t = "ObjectRef" /\ RefUndefined(oid.scope, NsC)

\* a Row node with an undefined reference, or with no namespace at all
RowCorrupt(r, hasDefault) ==
    \/ \E i \in DOMAIN r.cells :
          \/ r.cells[i].column.t = "ObjectRef" /\ RefUndefined(r.cells[i].column, NsC)
          \/ r.cells[i].value.t = "ObjectRef" /\ RefUndefined(r.cells[i].value, NsA)
    \/ ScopeUndefined(r.rowid)
    \/ ~hasDefault /\ r.rowid.scope.t = "None"

\* the structural corruptions of a top-level item, in the current state
Corrupt(item) ==
    \/ item.kind = "Dict" /\ Len(item.meta) > 1
    \/ item.kind = "Row" /\ RowCorrupt(item, FALSE)
    \/ /\ item.kind = "Table"
       /\ \/ ScopeUndefined(item.tableid)
          \/ item.tableid.scope.t = "None"
          \/ MissingBareRef(item)
          \/ \E i \in DOMAIN item.rows :
                \/ item.rows[i].kind = "Row" /\ RowCorrupt(item.rows[i], TRUE)
                \/ item.rows[i].kind = "ObjectId" /\ ScopeUndefined(item.rows[i])

\* C10: an item with a structural corruption ends the build at that item: the
\* build is failed, no later item is processed and no database is returned.
C10_CorruptionAborts ==
    [][ /\ (AtItem /\ Corrupt(ast[pc])) => (status' = "failed" /\ pc' = pc)
        /\ status = "failed" => (status' = "failed" /\ pc' = pc) ]_vars

\* C10 witness: the build failed at a Dict item with two meta-dicts, after an
\* item was processed and with items left
C10_Witness ==
    /\ status = "failed"
    /\ err = "AssertionError"
    /\ pc > 1
    /\ pc < Len(ast)
    /\ ast[pc].kind = "Dict"
    /\ Len(ast[pc].meta) > 1


\* the namespace the claim gives a Dict item: "a" without a meta-dict, else the
\* value of the (first) cell of column "a" of its meta-dict, "a" if it has none
ClaimedTarget(item) ==
    IF item.meta = <<>> THEN NsA
    ELSE LET cs == item.meta[1].cells
             hits == {i \in DOMAIN cs : cs[i].column = Str(NsA)}
         IN  IF hits = {} THEN NsA
             ELSE cs[CHOOSE i \in hits : \A l \in hits : i <= l].value.s

\* C11: a Dict item that is built merges its cells, values escape-decoded, into
\* namespace "a" when it has no meta-dict and into namespace V when its
\* meta-dict has the cell ("a", V); every other dictionary stays as it was.
C11_DictTarget ==
    [][ (AtItem /\ ast[pc].kind = "Dict" /\ status' = "building" /\ pc' = pc + 1) =>
        LET item == ast[pc]
            N == ClaimedTarget(item)
        IN  /\ \A alias \in DefinedBy(item) :
                  Resolves(dicts', N, alias, GivenBy(item, alias))
            /\ DOMAIN dicts' = DOMAIN dicts \cup {N}
            /\ \A ns \in DOMAIN dicts \ {N} : dicts'[ns] = dicts[ns] ]_vars

\* C11 witness: a Dict item with meta cell ("a", "c") and the cells
\* ("66", "$6B"), ("x", "j") was built: "c" maps "66" to "k" and "x" to "j",
\* and "a" is still the seeded table
C11_Witness ==
    /\ Running
    /\ pc > 1
    /\ ast[pc - 1].kind = "Dict"
    /\ ClaimedTarget(ast[pc - 1]) = NsC
    /\ Resolves(dicts, NsC, Tx66, TxK)
    /\ Resolves(dicts, NsC, TxX, TxJ)
    /\ dicts[NsA] = MorkDictInit


\* the identifier of a top-level Row or Table item
ItemId(item) == IF item.kind = "Row" THEN item.rowid ELSE item.tableid

\* the scope of identifier oid is a symbolic reference that names no namespace
IndirectScope(oid) == oid.scope.t = "ObjectRef" /\ oid.scope.obj.scope.t = "None"

\* C12: a Row or Table item whose scope is a symbolic reference to alias X is
\* stored under the namespace that dictionary "c" gives X when the item is
\* processed; if "c" does not define X the build fails with a KeyError.
C12_IndirectNamespace ==
    [][ (AtItem /\ ast[pc].kind \in {"Row", "Table"} /\ IndirectScope(ItemId(ast[pc]))) =>
        LET item == ast[pc]
            X == ItemId(item).scope.obj.objectid
            id == ItemId(item).objectid
        IN  IF X \notin DOMAIN dicts[NsC]
            THEN status' = "failed" /\ err' = "KeyError" /\ pc' = pc
            ELSE status' = "building" =>
                   IF item.kind = "Row"
                   THEN /\ StoreHas(rows', dicts[NsC][X], id)
                        /\ rows'[dicts[NsC][X]][id] > Len(heap)
                        /\ DOMAIN rows' = DOMAIN rows \cup {dicts[NsC][X]}
                   ELSE /\ StoreHas(tables', dicts[NsC][X], id)
                        /\ Len(tables'[dicts[NsC][X]][id]) = Len(item.rows)
                        /\ DOMAIN tables' = DOMAIN tables \cup {dicts[NsC][X]} ]_vars

\* C12 witness: after "c" was given "5" -> "n", the Row item of id "1" whose
\* scope is the reference ^5 was stored under ("n", "1")
C12_Witness ==
    /\ Running
    /\ pc > 2
    /\ ast[pc - 1].kind = "Row"
    /\ ast[pc - 1].rowid = ObjectId(Tx1, ObjectRef(Tx5, NoScope))
    /\ Resolves(dicts, NsC, Tx5, TxN)
    /\ Resolves(dicts, NsA, Tx5, <<5>>)
    /\ StoreHas(rows, TxN, Tx1)
    /\ DOMAIN rows = {TxN}


\* a cell without its cut marker
CleanCell(c) == [c EXCEPT !.cut = FALSE]

CleanCells(cells) == [i \in DOMAIN cells |-> CleanCell(cells[i])]

\* a Row node without truncated, cut and meta-row markers, on it and on its cells
CleanRow(r) ==
    [r EXCEPT !.cells = CleanCells(@), !.trunc = FALSE, !.cut = FALSE, !.meta = <<>>]

\* a top-level item with every cut, truncated, meta-row and meta-table marker cleared
CleanItem(item) ==
    IF item.kind = "Dict" THEN [item EXCEPT !.cells = CleanCells(@)]
    ELSE IF item.kind = "Row" THEN CleanRow(item)
    ELSE IF item.kind = "Table"
    THEN [item EXCEPT !.trunc = FALSE, !.meta = <<>>,
                      !.rows = [i \in DOMAIN @ |->
                                  IF @[i].kind = "Row" THEN CleanRow(@[i]) ELSE @[i]]]
    ELSE item

RECURSIVE CleanTree(_)
\* the items with their markers cleared and the items of unrecognized kind removed
CleanTree(items) ==
    IF items = <<>> THEN <<>>
    ELSE IF Head(items).kind \in {"Dict", "Row", "Table"}
    THEN <<CleanItem(Head(items))>> \o CleanTree(Tail(items))
    ELSE CleanTree(Tail(items))

\* the items of the tree that the loop has gone through
Prefix == SubSeq(ast, 1, pc - 1)

\* C13: as long as the build has not failed, the dictionaries, the rows and the
\* tables fromAst has built (before any later addRow on the returned database)
\* are those built from the items gone through with every marker cleared
\* and every unrecognized item removed; and when the build fails at an item, the
\* build of the cleared tree up to that item fails with the same exception.
C13_MarkersIgnored ==
    /\ (Running /\ adds = 0) =>
          LET c == FromAst(CleanTree(Prefix))
          IN  /\ c.err = "none"
              /\ c.db.dicts = dicts
              /\ c.db.rows = rows
              /\ c.db.tables = tables
              /\ c.db.heap = heap
    /\ status = "failed" => FromAst(CleanTree(SubSeq(ast, 1, pc))).err = err

\* C13 witness: a build is done that went through an unrecognized item and a
\* Row item with truncated, cut and meta markers and a cut cell, which is stored
C13_Witness ==
    /\ status = "done"
    /\ \E i \in DOMAIN ast : ast[i].kind = "Group"
    /\ \E i \in DOMAIN ast :
          /\ ast[i].kind = "Row"
          /\ ast[i].trunc /\ ast[i].cut /\ ast[i].meta # <<>>
          /\ \E l \in DOMAIN ast[i].cells : ast[i].cells[l].cut
          /\ StoreHas(rows, ast[i].rowid.scope.s, ast[i].rowid.objectid)
    /\ Len(CleanTree(ast)) < Len(ast)


\* the marker occurrences on a Row node: a cut on a cell, and the truncated,
\* cut and meta markers of the row
RowMarkers(r) ==
    Cardinality({l \in DOMAIN r.cells : r.cells[l].cut})
    + (IF r.trunc THEN 1 ELSE 0) + (IF r.cut THEN 1 ELSE 0) + (IF r.meta # <<>> THEN 1 ELSE 0)

RECURSIVE SumOver(_, _)
\* the sum of f over the index set S
SumOver(f, S) ==
    IF S = {} THEN 0
    ELSE LET x == CHOOSE y \in S : TRUE IN f[x] + SumOver(f, S \ {x})

\* the occurrences of an unimplemented feature in a top-level item
ItemMarkers(item) ==
    IF item.kind = "Dict" THEN Cardinality({l \in DOMAIN item.cells : item.cells[l].cut})
    ELSE IF item.kind = "Row" THEN RowMarkers(item)
    ELSE IF item.kind = "Table"
    THEN (IF item.trunc THEN 1 ELSE 0) + (IF item.meta # <<>> THEN 1 ELSE 0)
         + SumOver([i \in DOMAIN item.rows |->
                      IF item.rows[i].kind = "Row" THEN RowMarkers(item.rows[i]) ELSE 0],
                   DOMAIN item.rows)
    ELSE 1

\* C14 (as claimed): every occurrence of an unimplemented feature in the items
\* gone through (a cut on a Dict cell, a cut on a Row's cell, truncated, cut or
\* meta on a Row, truncated or meta on a Table, an unrecognized item) has
\* caused a warning: there are at least as many warnings as occurrences.
C14_AllDiagnosed ==
    Running => Len(warns) >= SumOver([j \in Processed |-> ItemMarkers(ast[j])], Processed)


\* the row objects the Row Store holds now
LiveRows == {rows[k[1]][k[2]] : k \in StoreKeys(rows)}

\* C15 (as claimed): whatever items have been built, every row a table of the
\* Table Store holds as fromAst built it (before any later addRow) is the
\* entity the Row Store holds now under that row's key.
\* (A row object is written to the Row Store once, under its own key, so it is
\* the entity held under its key exactly when the Row Store holds it at all.)
C15_TablesShareStoredRows ==
    (Running /\ adds = 0) =>
        \A t \in StoreKeys(tables) :
            \A i \in DOMAIN tables[t[1]][t[2]] : tables[t[1]][t[2]][i] \in LiveRows

\* C16: a Dict item, built or failed, leaves the Row Store, the Table Store,
\* the row objects and every dictionary but the one of its target namespace as
\* they were: a row already stored keeps the columns and values resolved when
\* its Row item was processed.
C16_DictFrame ==
    [][ (AtItem /\ ast[pc].kind = "Dict") =>
        /\ rows' = rows
        /\ tables' = tables
        /\ heap' = heap
        /\ DOMAIN dicts' \subseteq DOMAIN dicts \cup {ClaimedTarget(ast[pc])}
        /\ \A ns \in DOMAIN dicts \ {ClaimedTarget(ast[pc])} : dicts'[ns] = dicts[ns] ]_vars

\* C16 witness: a row was stored with the cell (^66 = ^66) resolved to
\* ("f" = "f"); then a Dict item gave "66" the value "hi" in "a"; the stored
\* row still maps "f" to "f"
C16_Witness ==
    /\ Running
    /\ pc > 2
    /\ ast[pc - 1].kind = "Dict"
    /\ ast[pc - 2].kind = "Row"
    /\ \E i \in DOMAIN ast[pc - 2].cells :
          ast[pc - 2].cells[i] = Cell(ObjectRef(Tx66, NoScope), ObjectRef(Tx66, NoScope), FALSE)
    /\ Resolves(dicts, NsA, Tx66, TxHi)
    /\ StoreHas(rows, <<5>>, Tx1)
    /\ <<102>> \in DOMAIN StoredRow(<<(<<5>>), Tx1>>)
    /\ StoredRow(<<(<<5>>), Tx1>>)[<<102>>] = <<102>>

====
